---- MODULE Spec2Model ----
(***************************************************************************)
(* Model of perfkitbenchmarker/linux_benchmarks/cluster_boot_benchmark.py: *)
(*   - GetTimeToBoot, the reduction of the VMs' lifecycle timestamps to    *)
(*     per-instance and cluster samples;                                   *)
(*   - _MeasureReboot and MeasureDelete, the concurrent fan-out of an      *)
(*     operation over the VMs, and _GetVmOperationDataSamples.             *)
(* Time is counted in ticks of 1/30 s, so that '%0.1f' never meets a tie.  *)
(***************************************************************************)
EXTENDS Integers, Sequences, FiniteSets, TLC

VARIABLES
    vms,        \* the list of VMs handed to the call (records of timestamps)
    FLAGS,      \* the absl flags the functions read
    pc,         \* position of the caller
    result,     \* what the caller got: returned samples, or a raised error
    operation,  \* "Boot", "Reboot" or "Delete": the call under way
    now,        \* time.time(), in ticks
    before_timestamp,   \* before_reboot_timestamp / before_delete_timestamp
    after_timestamp,    \* the time.time() read at line 270
    task,       \* per VM: its RunThreaded task, with the times it measured
    reboot_times, \* what RunThreaded hands back (Reboot): the tasks' return values
    joined_at   \* history: the clock when RunThreaded returned

vars == <<vms, FLAGS, pc, result, operation, now, before_timestamp,
          after_timestamp, task, reboot_times, joined_at>>

-----------------------------------------------------------------------------
(* Bounds *)

\* Longest VM list.
MaxVms == 2

\* Latest timestamp (in ticks) a VM of the boot calls carries.
MaxTime == 2

\* Last tick of the clock in the fan-out calls.
MaxClock == 4

-----------------------------------------------------------------------------
(* Values *)

\* An unset timestamp.  Python's None and 0.0 are both falsy and the code only
\* ever tests timestamps for truth, so one value stands for both.
None == 0

\* Ticks in a tenth of a second, the resolution of '%0.1f'.
TicksPerTenth == 3

\* Ticks in the 1 second of the create delay warning.
TicksPerSecond == 30

\* vm.OS_TYPE values, and the ones whose classes derive from BaseLinuxMixin.
OsTypes == {"debian", "windows"}

LinuxOsTypes == {"debian"}

\* Python's truth test of a timestamp: `if vm.x:` / `assert vm.x`.
Truthy(t) == t # None

\* isinstance(vm, linux_virtual_machine.BaseLinuxMixin)
IsLinux(vm) == vm.OS_TYPE \in LinuxOsTypes

Max(a, b) == IF a >= b THEN a ELSE b

SetMin(S) == CHOOSE x \in S : \A y \in S : x <= y

SetMax(S) == CHOOSE x \in S : \A y \in S : x >= y

\* '%0.1f' % d for a delay d >= 0 of ticks: the number of tenths, rounded to
\* nearest (the string is that number with a point before its last digit).
FormatTenths(d) == (2 * d + TicksPerTenth) \div (2 * TicksPerTenth)

\* Rank of an OS type in Python's string order.
OsRank(os) == IF os = "debian" THEN 1 ELSE 2

\* ','.join(sorted(os_types)), kept as the sorted sequence of the types.
RECURSIVE JoinSorted(_)
JoinSorted(S) ==
    IF S = {} THEN <<>>
    ELSE LET first == CHOOSE x \in S : \A y \in S : OsRank(x) <= OsRank(y)
         IN  <<first>> \o JoinSorted(S \ {first})

\* sample.Sample(metric, value, 'seconds', metadata)
Sample(metric, value, metadata) ==
    [metric |-> metric, value |-> value, unit |-> "seconds", metadata |-> metadata]

\* The outcome of a call: a returned list of samples ...
Return(samples, warned) ==
    [status |-> "returned", error |-> "", samples |-> samples, warned |-> warned]

\* ... or an exception, which leaves the caller without any sample.
Raise(error) ==
    [status |-> "raised", error |-> error, samples |-> <<>>, warned |-> FALSE]

NoResult == [status |-> "none", error |-> "", samples |-> <<>>, warned |-> FALSE]

-----------------------------------------------------------------------------
(* GetTimeToBoot *)

\* min(vm.create_start_time for vm in vms); of one VM it is that VM's value
\* (None included), of several it compares them, and None does not compare.
MinCreateStartTime(list) ==
    SetMin({list[k].create_start_time : k \in 1..Len(list)})

MinRaises(list) ==
    /\ Len(list) >= 2
    /\ \E k \in 1..Len(list) : list[k].create_start_time = None

\* Variant: bootable_time asserted to be set, its order left unchecked.
HeadAssertsHoldNoOrder(vm) ==
    /\ Truthy(vm.create_start_time)
    /\ Truthy(vm.bootable_time)

\* The asserts at the head of the loop body.
HeadAssertsHold(vm) ==
    /\ Truthy(vm.create_start_time)
    /\ Truthy(vm.bootable_time)
    /\ vm.bootable_time >= vm.create_start_time

\* The asserts under FLAGS.cluster_boot_test_port_listening.
PortAssertsHold(vm) ==
    /\ Truthy(vm.port_listening_time)
    /\ vm.port_listening_time >= vm.create_start_time

\* The asserts under FLAGS.cluster_boot_test_rdp_port_listening.
RdpAssertsHold(vm) ==
    /\ Truthy(vm.rdp_port_listening_time)
    /\ vm.rdp_port_listening_time >= vm.create_start_time

\* The metadata of the per-instance samples of the VM at 0-based index i.
VmMetadata(vm, i, n, min_create_start_time) ==
    [machine_instance |-> i,
     num_vms |-> n,
     os_type |-> vm.OS_TYPE,
     create_delay_sec |->
         FormatTenths(vm.create_start_time - min_create_start_time)]

\* TIME TO CREATE ASYNC RETURN
CreateReturnSamples(vm, min_create_start_time, metadata) ==
    IF Truthy(vm.create_return_time)
    THEN <<Sample("Time to Create Async Return",
                  vm.create_return_time - min_create_start_time, metadata)>>
    ELSE <<>>

\* Variant: 'Time to Running' measured against the cluster reference.
RunningReferenceCluster(vm, min_create_start_time) == min_create_start_time

\* The reference of 'Time to Running': the VM's own create_start_time.
RunningReference(vm, min_create_start_time) == vm.create_start_time

\* TIME TO RUNNING
RunningSamples(vm, min_create_start_time, metadata) ==
    IF Truthy(vm.is_running_time)
    THEN <<Sample("Time to Running",
                  vm.is_running_time - RunningReference(vm, min_create_start_time),
                  metadata)>>
    ELSE <<>>

\* Variant: the internal SSH sample nested under the external one.
SshSamplesNested(vm, min_create_start_time, metadata) ==
    IF IsLinux(vm) /\ Truthy(vm.ssh_external_time)
    THEN <<Sample("Time to SSH - External",
                  vm.ssh_external_time - min_create_start_time, metadata)>>
         \o
         (IF Truthy(vm.ssh_internal_time)
          THEN <<Sample("Time to SSH - Internal",
                        vm.ssh_internal_time - min_create_start_time, metadata)>>
          ELSE <<>>)
    ELSE <<>>

\* TIME TO SSH, of the Linux VMs only
SshSamples(vm, min_create_start_time, metadata) ==
    IF IsLinux(vm)
    THEN (IF Truthy(vm.ssh_external_time)
          THEN <<Sample("Time to SSH - External",
                        vm.ssh_external_time - min_create_start_time, metadata)>>
          ELSE <<>>)
         \o
         (IF Truthy(vm.ssh_internal_time)
          THEN <<Sample("Time to SSH - Internal",
                        vm.ssh_internal_time - min_create_start_time, metadata)>>
          ELSE <<>>)
    ELSE <<>>

\* Variant: the 'Boot Time' sample appended inside the Linux branch.
BootTimeSamplesLinuxOnly(vm, min_create_start_time, metadata) ==
    IF IsLinux(vm)
    THEN <<Sample("Boot Time", vm.bootable_time - min_create_start_time, metadata)>>
    ELSE <<>>

\* boot_time_sec and its sample, appended whatever the VM.
BootTimeSamples(vm, min_create_start_time, metadata) ==
    <<Sample("Boot Time", vm.bootable_time - min_create_start_time, metadata)>>

\* TIME TO PORT LISTENING
PortSamples(vm, min_create_start_time, metadata, flags) ==
    IF flags.cluster_boot_test_port_listening
    THEN <<Sample("Port Listening Time",
                  vm.port_listening_time - min_create_start_time, metadata)>>
    ELSE <<>>

\* TIME TO RDP LISTENING
RdpSamples(vm, min_create_start_time, metadata, flags) ==
    IF flags.cluster_boot_test_rdp_port_listening
    THEN <<Sample("RDP Port Listening Time",
                  vm.rdp_port_listening_time - min_create_start_time, metadata)>>
    ELSE <<>>

\* The samples one iteration appends for the VM at 0-based index i, when none of
\* its asserts fails.
VmSamples(vm, i, n, min_create_start_time, flags) ==
    LET metadata == VmMetadata(vm, i, n, min_create_start_time)
    IN  CreateReturnSamples(vm, min_create_start_time, metadata)
        \o RunningSamples(vm, min_create_start_time, metadata)
        \o SshSamples(vm, min_create_start_time, metadata)
        \o BootTimeSamples(vm, min_create_start_time, metadata)
        \o PortSamples(vm, min_create_start_time, metadata, flags)
        \o RdpSamples(vm, min_create_start_time, metadata, flags)

\* Whether the iteration over vm runs to its end without a failed assert.
VmAssertsHold(vm, flags) ==
    /\ HeadAssertsHold(vm)
    /\ flags.cluster_boot_test_port_listening => PortAssertsHold(vm)
    /\ flags.cluster_boot_test_rdp_port_listening => RdpAssertsHold(vm)

\* Variant: the maximum taken of the boot times against the VM's own start.
NextMaxBootTimeOwnStart(max_boot_time_sec, vm, min_create_start_time) ==
    Max(max_boot_time_sec, vm.bootable_time - vm.create_start_time)

\* max_boot_time_sec = max(max_boot_time_sec, boot_time_sec)
NextMaxBootTime(max_boot_time_sec, vm, min_create_start_time) ==
    Max(max_boot_time_sec, vm.bootable_time - min_create_start_time)

\* The locals before the loop.
BootLocals ==
    [samples |-> <<>>, os_types |-> {}, max_create_delay_sec |-> 0,
     max_boot_time_sec |-> 0, max_port_listening_time_sec |-> 0,
     max_rdp_port_listening_time_sec |-> 0, raised |-> FALSE]

\* One iteration of `for i, vm in enumerate(vms)` on the locals.
BootIteration(loc, vm, i, n, min_create_start_time, flags) ==
    IF ~VmAssertsHold(vm, flags)
    THEN [loc EXCEPT !.raised = TRUE]
    ELSE [samples |-> loc.samples
                        \o VmSamples(vm, i, n, min_create_start_time, flags),
          os_types |-> loc.os_types \cup {vm.OS_TYPE},
          max_create_delay_sec |->
              Max(loc.max_create_delay_sec,
                  vm.create_start_time - min_create_start_time),
          max_boot_time_sec |->
              NextMaxBootTime(loc.max_boot_time_sec, vm, min_create_start_time),
          max_port_listening_time_sec |->
              IF flags.cluster_boot_test_port_listening
              THEN Max(loc.max_port_listening_time_sec,
                       vm.port_listening_time - min_create_start_time)
              ELSE loc.max_port_listening_time_sec,
          max_rdp_port_listening_time_sec |->
              IF flags.cluster_boot_test_rdp_port_listening
              THEN Max(loc.max_rdp_port_listening_time_sec,
                       vm.rdp_port_listening_time - min_create_start_time)
              ELSE loc.max_rdp_port_listening_time_sec,
          raised |-> FALSE]

\* The loop over list[k..], from the locals loc; it stops at a failed assert.
RECURSIVE BootLoop(_, _, _, _, _)
BootLoop(loc, list, k, min_create_start_time, flags) ==
    IF loc.raised \/ k > Len(list) THEN loc
    ELSE BootLoop(BootIteration(loc, list[k], k - 1, Len(list),
                                min_create_start_time, flags),
                  list, k + 1, min_create_start_time, flags)

\* The cluster samples appended after the loop.
ClusterBootSamples(loc, n, flags) ==
    LET metadata == [num_vms |-> n,
                     os_type |-> JoinSorted(loc.os_types),
                     max_create_delay_sec |->
                         FormatTenths(loc.max_create_delay_sec)]
    IN  <<Sample("Cluster Boot Time", loc.max_boot_time_sec, metadata)>>
        \o
        (IF flags.cluster_boot_test_port_listening
         THEN <<Sample("Cluster Port Listening Time",
                       loc.max_port_listening_time_sec, metadata)>>
         ELSE <<>>)
        \o
        (IF flags.cluster_boot_test_rdp_port_listening
         THEN <<Sample("Cluster RDP Port Listening Time",
                       loc.max_rdp_port_listening_time_sec, metadata)>>
         ELSE <<>>)

\* Variant: the failing VM skipped, the samples gathered so far returned.
AssertionFailureSkipped(loc) == Return(loc.samples, FALSE)

\* What a failed assert of the loop leaves the caller with.
AssertionFailure(loc) == Raise("AssertionError")

\* GetTimeToBoot(vms) under the flags.
GetTimeToBoot(list, flags) ==
    IF list = <<>> THEN Return(<<>>, FALSE)
    ELSE IF MinRaises(list) THEN Raise("TypeError")
    ELSE LET min_create_start_time == MinCreateStartTime(list)
             loc == BootLoop(BootLocals, list, 1, min_create_start_time, flags)
         IN  IF loc.raised THEN AssertionFailure(loc)
             ELSE Return(loc.samples \o ClusterBootSamples(loc, Len(list), flags),
                         loc.max_create_delay_sec > TicksPerSecond)

-----------------------------------------------------------------------------
(* The VM lists of the boot calls *)

Times == 1..MaxTime

OptTimes == {None} \cup Times

TimestampFields ==
    {"create_start_time", "create_return_time", "is_running_time",
     "ssh_external_time", "ssh_internal_time", "bootable_time",
     "port_listening_time", "rdp_port_listening_time"}

\* A VM as the provisioning layer leaves it when nothing goes wrong: created at
\* create_start_time, every readiness timestamp taken at ready.
RegularVm(os, start, ready) ==
    [OS_TYPE |-> os,
     create_start_time |-> start,
     create_return_time |-> start,
     is_running_time |-> ready,
     ssh_external_time |-> ready,
     ssh_internal_time |-> ready,
     bootable_time |-> ready,
     port_listening_time |-> ready,
     rdp_port_listening_time |-> ready,
     delete_start_time |-> None,
     delete_end_time |-> None]

\* The regular VMs that take lag ticks from their creation to be ready.
RegularVms(lag) ==
    {RegularVm(os, start, start + lag) :
        os \in OsTypes, start \in {t \in Times : t + lag <= MaxTime}}

\* Lists of regular VMs of any OS types and start times, equally long to boot.
RegularLists ==
    UNION {[1..n -> RegularVms(lag)] : n \in 0..MaxVms, lag \in {0, 1}}

FlagSets ==
    [cluster_boot_test_port_listening : BOOLEAN,
     cluster_boot_test_rdp_port_listening : BOOLEAN,
     cluster_boot_time_reboot : BOOLEAN]

\* The lists the boot calls are tried on: regular VMs, one of which may have one
\* timestamp unset or moved anywhere, before its create_start_time included.
InitBoot ==
    /\ \E list \in RegularLists :
         \/ vms = list
         \/ \E k \in 1..Len(list), f \in TimestampFields, t \in OptTimes :
              vms = [list EXCEPT ![k][f] = t]
    /\ FLAGS \in {fl \in FlagSets : ~fl.cluster_boot_time_reboot}
    /\ operation = "Boot"
    /\ pc = "ready"
    /\ result = NoResult
    /\ now = 0
    /\ before_timestamp = None
    /\ after_timestamp = None
    /\ task = <<>>
    /\ reboot_times = <<>>
    /\ joined_at = None

\* The caller runs GetTimeToBoot(vms) and gets its samples or its exception.
CallGetTimeToBoot ==
    /\ operation = "Boot"
    /\ pc = "ready"
    /\ result' = GetTimeToBoot(vms, FLAGS)
    /\ pc' = "done"
    /\ UNCHANGED <<vms, FLAGS, operation, now, before_timestamp,
                   after_timestamp, task, reboot_times, joined_at>>

NextBoot == CallGetTimeToBoot

SpecBoot == InitBoot /\ [][NextBoot]_vars

-----------------------------------------------------------------------------
(* _GetVmOperationDataSamples *)

\* zip(operation_times, metadata_list) stops at the shorter of the two.
ZipLen(operation_times, list) ==
    IF Len(operation_times) <= Len(list) THEN Len(operation_times) ELSE Len(list)

\* Variant: machine_instance counted from 1.
OperationMetadataOneBased(list, i) ==
    [machine_instance |-> i + 1, num_vms |-> Len(list),
     os_type |-> list[i + 1].OS_TYPE]

\* The metadata built for the VM at 0-based index i.
OperationMetadata(list, i) ==
    [machine_instance |-> i, num_vms |-> Len(list), os_type |-> list[i + 1].OS_TYPE]

\* The operation time zipped with the metadata of 0-based index i.
ZippedTime(operation_times, i) == operation_times[i + 1]

_GetVmOperationDataSamples(operation_times, cluster_time, op, list) ==
    [k \in 1..ZipLen(operation_times, list) |->
        Sample(op \o " Time", ZippedTime(operation_times, k - 1),
               OperationMetadata(list, k - 1))]
    \o
    <<Sample("Cluster " \o op \o " Time", cluster_time,
             [num_vms |-> Len(list),
              os_type |-> JoinSorted({list[k].OS_TYPE : k \in 1..Len(list)})])>>

-----------------------------------------------------------------------------
(* Run, _MeasureReboot, MeasureDelete and the tasks of RunThreaded *)

IdleTask == [st |-> "idle", op_start |-> None, op_end |-> None]

\* The fan-out calls start on VMs that booted, with the clock past their boot.
InitFanOut ==
    /\ vms \in UNION {[1..n -> {RegularVm(os, 1, 1) : os \in OsTypes}] :
                         n \in 0..MaxVms}
    /\ FLAGS \in {fl \in FlagSets : /\ ~fl.cluster_boot_test_port_listening
                                    /\ ~fl.cluster_boot_test_rdp_port_listening}
    /\ operation \in {"Reboot", "Delete"}
    /\ pc = "ready"
    /\ result = NoResult
    /\ now = 1
    /\ before_timestamp = None
    /\ after_timestamp = None
    /\ task = [k \in 1..Len(vms) |-> IdleTask]
    /\ reboot_times = <<>>
    /\ joined_at = None

\* time.time() moves on, at any point of the call.
Tick ==
    /\ operation \in {"Reboot", "Delete"}
    /\ pc # "done"
    /\ now < MaxClock
    /\ now' = now + 1
    /\ UNCHANGED <<vms, FLAGS, pc, result, operation, before_timestamp,
                   after_timestamp, task, reboot_times, joined_at>>

\* Run(benchmark_spec): measures the reboot only under --cluster_boot_time_reboot.
Run ==
    /\ operation = "Reboot"
    /\ pc = "ready"
    /\ IF FLAGS.cluster_boot_time_reboot
       THEN pc' = "measure" /\ UNCHANGED result
       ELSE pc' = "done" /\ result' = Return(<<>>, FALSE)
    /\ UNCHANGED <<vms, FLAGS, operation, now, before_timestamp,
                   after_timestamp, task, reboot_times, joined_at>>

\* before_reboot_timestamp = time.time() / before_delete_timestamp = time.time(),
\* after which RunThreaded is entered.
ReadBeforeTimestamp ==
    /\ \/ operation = "Reboot" /\ pc = "measure"
       \/ operation = "Delete" /\ pc = "ready"
    /\ before_timestamp' = now
    /\ pc' = "fan_out"
    /\ UNCHANGED <<vms, FLAGS, result, operation, now, after_timestamp, task,
                   reboot_times, joined_at>>

\* The thread of VM k starts vm.Reboot() / vm.Delete(): the operation notes its
\* own start (Delete in vm.delete_start_time).
TaskBegin(k) ==
    /\ pc = "fan_out"
    /\ task[k].st = "idle"
    /\ task' = [task EXCEPT ![k] = [@ EXCEPT !.st = "running", !.op_start = now]]
    /\ vms' = IF operation = "Delete"
              THEN [vms EXCEPT ![k].delete_start_time = now]
              ELSE vms
    /\ UNCHANGED <<FLAGS, pc, result, operation, now, before_timestamp,
                   after_timestamp, reboot_times, joined_at>>

\* The operation of VM k ends and its task returns: Reboot returns the duration it
\* measured itself, Delete leaves vm.delete_end_time.
TaskEnd(k) ==
    /\ pc = "fan_out"
    /\ task[k].st = "running"
    /\ task' = [task EXCEPT ![k] = [@ EXCEPT !.st = "returned", !.op_end = now]]
    /\ vms' = IF operation = "Delete"
              THEN [vms EXCEPT ![k].delete_end_time = now]
              ELSE vms
    /\ UNCHANGED <<FLAGS, pc, result, operation, now, before_timestamp,
                   after_timestamp, reboot_times, joined_at>>

\* The operation of VM k raises.
TaskFail(k) ==
    /\ pc = "fan_out"
    /\ task[k].st = "running"
    /\ task' = [task EXCEPT ![k].st = "failed"]
    /\ UNCHANGED <<vms, FLAGS, pc, result, operation, now, before_timestamp,
                   after_timestamp, reboot_times, joined_at>>

\* What vm.Reboot() returned in the task of VM k.
RebootDuration(k) == task[k].op_end - task[k].op_start

\* RunThreaded returns once every task has returned, with their return values in
\* the order of vms.
JoinReturn ==
    /\ pc = "fan_out"
    /\ \A k \in 1..Len(vms) : task[k].st = "returned"
    /\ reboot_times' = IF operation = "Reboot"
                       THEN [k \in 1..Len(vms) |-> RebootDuration(k)]
                       ELSE reboot_times
    /\ pc' = "joined"
    /\ joined_at' = now
    /\ UNCHANGED <<vms, FLAGS, result, operation, now, before_timestamp,
                   after_timestamp, task>>

\* Variant: the exception caught, the cluster sample built over no task.
CaughtInMeasure(error) ==
    Return(_GetVmOperationDataSamples(<<>>, now - before_timestamp, operation, vms),
           FALSE)

\* _MeasureReboot and MeasureDelete have no handler around RunThreaded: its
\* exception is the outcome of the call.
UncaughtInMeasure(error) == Raise(error)

\* RunThreaded raises once a task has failed.
JoinRaise ==
    /\ pc = "fan_out"
    /\ \E k \in 1..Len(vms) : task[k].st = "failed"
    /\ result' = UncaughtInMeasure("ThreadException")
    /\ pc' = "done"
    /\ UNCHANGED <<vms, FLAGS, operation, now, before_timestamp,
                   after_timestamp, task, reboot_times, joined_at>>

\* Variant: the cluster time taken as the longest reported reboot.
ClusterRebootTimeLongest(after) ==
    SetMax({0} \cup {reboot_times[k] : k \in 1..Len(reboot_times)})

\* cluster_reboot_time, from the time.time() read after RunThreaded.
ClusterRebootTime(after) == after - before_timestamp

\* _MeasureReboot after RunThreaded.
FinishReboot ==
    /\ operation = "Reboot"
    /\ pc = "joined"
    /\ after_timestamp' = now
    /\ result' = Return(_GetVmOperationDataSamples(
                            reboot_times, ClusterRebootTime(now), "Reboot", vms),
                        FALSE)
    /\ pc' = "done"
    /\ UNCHANGED <<vms, FLAGS, operation, now, before_timestamp, task,
                   reboot_times, joined_at>>

\* delete_times of MeasureDelete.
DeleteTimes(list) ==
    [k \in 1..Len(list) |-> list[k].delete_end_time - list[k].delete_start_time]

\* Variant: the cluster time taken as the longest delete.
ClusterDeleteTimeLongest(list) ==
    SetMax({list[k].delete_end_time - list[k].delete_start_time :
               k \in 1..Len(list)})

\* cluster_delete_time of MeasureDelete.
ClusterDeleteTime(list) ==
    SetMax({list[k].delete_end_time : k \in 1..Len(list)}) - before_timestamp

\* MeasureDelete after RunThreaded; max() of no VM raises.
FinishDelete ==
    /\ operation = "Delete"
    /\ pc = "joined"
    /\ result' = IF vms = <<>>
                 THEN Raise("ValueError")
                 ELSE Return(_GetVmOperationDataSamples(
                                 DeleteTimes(vms), ClusterDeleteTime(vms),
                                 "Delete", vms),
                             FALSE)
    /\ pc' = "done"
    /\ UNCHANGED <<vms, FLAGS, operation, now, before_timestamp,
                   after_timestamp, task, reboot_times, joined_at>>

NextFanOut ==
    \/ Tick
    \/ Run
    \/ ReadBeforeTimestamp
    \/ \E k \in 1..Len(vms) : TaskBegin(k)
    \/ \E k \in 1..Len(vms) : TaskEnd(k)
    \/ \E k \in 1..Len(vms) : TaskFail(k)
    \/ JoinReturn
    \/ JoinRaise
    \/ FinishReboot
    \/ FinishDelete

SpecFanOut == InitFanOut /\ [][NextFanOut]_vars

-----------------------------------------------------------------------------
(* Properties of GetTimeToBoot, checked under SpecBoot *)

BootDone == operation = "Boot" /\ pc = "done"

\* The preconditions of an instance: create_start_time and bootable_time set and
\* in order, and a timestamp an enabled flag requires set and not before
\* create_start_time.
InstanceValid(vm) ==
    /\ vm.create_start_time # None
    /\ vm.bootable_time # None
    /\ vm.bootable_time >= vm.create_start_time
    /\ FLAGS.cluster_boot_test_port_listening =>
         vm.port_listening_time # None
         /\ vm.port_listening_time >= vm.create_start_time
    /\ FLAGS.cluster_boot_test_rdp_port_listening =>
         vm.rdp_port_listening_time # None
         /\ vm.rdp_port_listening_time >= vm.create_start_time

AllValid == \A k \in 1..Len(vms) : InstanceValid(vms[k])

\* The positions of the returned samples named metric.
Named(metric) ==
    {j \in 1..Len(result.samples) : result.samples[j].metric = metric}

\* The positions of the returned samples named metric of 0-based instance i.
NamedOf(metric, i) ==
    {j \in Named(metric) : result.samples[j].metadata.machine_instance = i}

ReferenceTime == SetMin({vms[k].create_start_time : k \in 1..Len(vms)})

\* C1: of a non-empty list of valid instances GetTimeToBoot returns exactly one
\* 'Boot Time' sample per instance and exactly one 'Cluster Boot Time' sample,
\* whatever the optional timestamps and the flags.
C1_OneBootTimePerInstance ==
    (BootDone /\ vms # <<>> /\ AllValid) =>
        /\ result.status = "returned"
        /\ Cardinality(Named("Boot Time")) = Len(vms)
        /\ \A k \in 1..Len(vms) : Cardinality(NamedOf("Boot Time", k - 1)) = 1
        /\ Cardinality(Named("Cluster Boot Time")) = 1

C1_Witness ==
    /\ BootDone /\ Len(vms) = 2 /\ AllValid
    /\ FLAGS.cluster_boot_test_port_listening
    /\ FLAGS.cluster_boot_test_rdp_port_listening
    /\ vms[1].OS_TYPE = "windows"
    /\ vms[2].is_running_time = None
    /\ Cardinality(Named("Boot Time")) = 2

\* C2: of a non-empty list of valid instances the 'Cluster Boot Time' value is
\* the maximum of the 'Boot Time' values, each bootable_time minus the minimum
\* create_start_time.
C2_ClusterBootTimeIsMax ==
    (BootDone /\ vms # <<>> /\ AllValid) =>
        /\ \A k \in 1..Len(vms) : \A j \in NamedOf("Boot Time", k - 1) :
             result.samples[j].value = vms[k].bootable_time - ReferenceTime
        /\ \A c \in Named("Cluster Boot Time") :
             /\ \E j \in Named("Boot Time") :
                  result.samples[c].value = result.samples[j].value
             /\ \A j \in Named("Boot Time") :
                  result.samples[c].value >= result.samples[j].value
        /\ Named("Cluster Boot Time") # {}

\* The slowest instance is not the last one and started after the reference.
C2_Witness ==
    /\ BootDone /\ Len(vms) = 2 /\ AllValid /\ result.status = "returned"
    /\ vms[1].create_start_time > vms[2].create_start_time
    /\ vms[1].bootable_time > vms[2].bootable_time
    /\ \E c \in Named("Cluster Boot Time") :
         result.samples[c].value = vms[1].bootable_time - vms[2].create_start_time

\* C3: with the port-listening flag on, an instance at any position whose
\* port_listening_time is absent or earlier than its create_start_time makes
\* GetTimeToBoot fail, and the caller receives no sample at all.
C3_PortTimestampFatal ==
    (/\ BootDone
     /\ FLAGS.cluster_boot_test_port_listening
     /\ \E k \in 1..Len(vms) :
          \/ vms[k].port_listening_time = None
          \/ vms[k].port_listening_time < vms[k].create_start_time)
    => /\ result.status = "raised"
       /\ result.samples = <<>>

\* The failing instance comes after one that was processed to its end.
C3_Witness ==
    /\ BootDone /\ Len(vms) = 2
    /\ FLAGS.cluster_boot_test_port_listening
    /\ ~FLAGS.cluster_boot_test_rdp_port_listening
    /\ InstanceValid(vms[1])
    /\ vms[2].port_listening_time # None
    /\ vms[2].port_listening_time < vms[2].create_start_time
    /\ result.status = "raised" /\ result.error = "AssertionError"

\* The timestamps no flag ever requires, and the metric each one yields.
OptionalFields ==
    {"create_return_time", "is_running_time", "ssh_external_time",
     "ssh_internal_time"}

MetricOf(f) ==
    CASE f = "create_return_time" -> "Time to Create Async Return"
      [] f = "is_running_time" -> "Time to Running"
      [] f = "ssh_external_time" -> "Time to SSH - External"
      [] f = "ssh_internal_time" -> "Time to SSH - Internal"
      [] f = "bootable_time" -> "Boot Time"
      [] f = "port_listening_time" -> "Port Listening Time"
      [] f = "rdp_port_listening_time" -> "RDP Port Listening Time"

\* The timestamps an enabled flag requires.
FlagRequired ==
    (IF FLAGS.cluster_boot_test_port_listening
     THEN {"port_listening_time"} ELSE {})
    \cup
    (IF FLAGS.cluster_boot_test_rdp_port_listening
     THEN {"rdp_port_listening_time"} ELSE {})

\* Timestamp f of instance k is present and earlier than its create_start_time.
OutOfOrder(k, f) ==
    /\ vms[k][f] # None
    /\ vms[k][f] < vms[k].create_start_time

Without(k, f) == [vms EXCEPT ![k][f] = None]

\* The samples but those named metric of 0-based instance i.
Except(samples, metric, i) ==
    SelectSeq(samples,
              LAMBDA smp : ~(/\ smp.metric = metric
                             /\ "machine_instance" \in DOMAIN smp.metadata
                             /\ smp.metadata.machine_instance = i))

\* C9: when the call succeeds on a list, it also succeeds on the list with one
\* optional timestamp of one instance absent, and returns the same samples with
\* the same names, values and metadata in the same order, but for the one sample
\* of that metric of that instance.
C9_AbsentOptionalOnlyDropsItsSample ==
    (BootDone /\ result.status = "returned") =>
        \A k \in 1..Len(vms) : \A f \in OptionalFields :
            vms[k][f] # None =>
                LET absent == GetTimeToBoot(Without(k, f), FLAGS)
                IN  /\ absent.status = "returned"
                    /\ absent.samples =
                           Except(result.samples, MetricOf(f), k - 1)
                    /\ Cardinality(NamedOf(MetricOf(f), k - 1)) =
                           (IF f \in {"ssh_external_time", "ssh_internal_time"}
                               /\ ~IsLinux(vms[k])
                            THEN 0 ELSE 1)
                    /\ Len(absent.samples) =
                           Len(result.samples)
                           - Cardinality(NamedOf(MetricOf(f), k - 1))

\* A Linux instance with all four optional timestamps, next to another instance.
C9_Witness ==
    /\ BootDone /\ result.status = "returned" /\ Len(vms) = 2
    /\ IsLinux(vms[1])
    /\ \A f \in OptionalFields : vms[1][f] # None
    /\ Len(GetTimeToBoot(Without(1, "ssh_external_time"), FLAGS).samples)
         = Len(result.samples) - 1

\* Instances k and l started at different times and took equally long to run.
SameTimeToRunning(k, l) ==
    /\ vms[k].is_running_time # None
    /\ vms[l].is_running_time # None
    /\ vms[k].create_start_time # vms[l].create_start_time
    /\ vms[k].is_running_time - vms[k].create_start_time
         = vms[l].is_running_time - vms[l].create_start_time

\* The value of the one sample named metric of 0-based instance i.
ValueOf(metric, i) ==
    result.samples[CHOOSE j \in NamedOf(metric, i) : TRUE].value

\* The create_delay_sec metadata of the samples of 0-based instance i.
CreateDelayOf(i) ==
    {result.samples[j].metadata.create_delay_sec : j \in NamedOf("Boot Time", i)}

\* C10, as claimed: two such instances get identical 'Time to Running' values
\* while their create_delay_sec metadata differ.
C10_SameRunningDifferentDelayMetadata ==
    (BootDone /\ result.status = "returned") =>
        \A k, l \in 1..Len(vms) :
            SameTimeToRunning(k, l) =>
                /\ ValueOf("Time to Running", k - 1)
                     = ValueOf("Time to Running", l - 1)
                /\ CreateDelayOf(k - 1) # CreateDelayOf(l - 1)

\* C10, amended: 'Time to Running' is is_running_time minus the instance's own
\* create_start_time, so two such instances get identical values, while every
\* other per-instance metric is measured against the minimum create_start_time;
\* their create delays differ, but the create_delay_sec metadata is the delay
\* rounded to a tenth of a second, which need not differ.
C10_TimeToRunningOwnStart ==
    (BootDone /\ result.status = "returned") =>
        /\ \A k \in 1..Len(vms) :
             /\ vms[k].is_running_time # None =>
                  /\ Cardinality(NamedOf("Time to Running", k - 1)) = 1
                  /\ ValueOf("Time to Running", k - 1)
                       = vms[k].is_running_time - vms[k].create_start_time
             /\ \A f \in (TimestampFields
                            \ {"create_start_time", "is_running_time"}) :
                  \A j \in NamedOf(MetricOf(f), k - 1) :
                     result.samples[j].value = vms[k][f] - ReferenceTime
             /\ CreateDelayOf(k - 1) =
                  {FormatTenths(vms[k].create_start_time - ReferenceTime)}
        /\ \A k, l \in 1..Len(vms) :
             SameTimeToRunning(k, l) =>
                /\ ValueOf("Time to Running", k - 1)
                     = ValueOf("Time to Running", l - 1)
                /\ vms[k].create_start_time - ReferenceTime
                     # vms[l].create_start_time - ReferenceTime

\* Two such instances, the second one started first.
C10_Witness ==
    /\ BootDone /\ result.status = "returned" /\ Len(vms) = 2
    /\ SameTimeToRunning(1, 2)
    /\ vms[2].create_start_time < vms[1].create_start_time
    /\ ValueOf("Time to Running", 1) = ValueOf("Time to Running", 0)
    /\ ValueOf("Boot Time", 1) # ValueOf("Boot Time", 0)

-----------------------------------------------------------------------------
(* Properties of the fan-out calls, checked under SpecFanOut *)

\* _MeasureReboot or MeasureDelete was entered and the call is over.
FanOutDone ==
    /\ operation \in {"Reboot", "Delete"}
    /\ pc = "done"
    /\ before_timestamp # None

SomeTaskFailed == \E k \in 1..Len(vms) : task[k].st = "failed"

\* C5: if the operation of at least one instance fails, the call never yields a
\* sample: whatever the interleaving it can only end in an error, with no
\* per-instance and no cluster sample from the tasks that succeeded.
C5_FailurePropagates ==
    (operation \in {"Reboot", "Delete"} /\ SomeTaskFailed) =>
        /\ result.samples = <<>>
        /\ pc # "joined"
        /\ pc = "done" => result.status = "raised"

\* One task failed after the other one had returned.
C5_Witness ==
    /\ FanOutDone /\ Len(vms) = 2
    /\ SomeTaskFailed
    /\ \E k \in 1..2 : task[k].st = "returned"
    /\ result.status = "raised"

\* C6: in _MeasureReboot t0 is read before any task starts and the end time
\* after every task has returned; 'Cluster Reboot Time' is the span between the
\* two reads and is not smaller than any per-instance 'Reboot Time'.
C6_ClusterRebootIsWallClock ==
    /\ operation = "Reboot" =>
         \A k \in 1..Len(vms) :
            task[k].st # "idle" =>
               before_timestamp # None /\ before_timestamp <= task[k].op_start
    /\ (FanOutDone /\ operation = "Reboot" /\ result.status = "returned") =>
         /\ Len(result.samples) = Len(vms) + 1
         /\ result.samples[Len(vms) + 1].metric = "Cluster Reboot Time"
         /\ result.samples[Len(vms) + 1].value = after_timestamp - before_timestamp
         /\ after_timestamp >= joined_at
         /\ \A k \in 1..Len(vms) :
              /\ task[k].st = "returned"
              /\ task[k].op_end <= joined_at
              /\ result.samples[Len(vms) + 1].value >= result.samples[k].value

\* The cluster time exceeds the longest reported reboot.
C6_Witness ==
    /\ FanOutDone /\ operation = "Reboot" /\ result.status = "returned"
    /\ Len(vms) = 2
    /\ result.samples[1].value > 0
    /\ result.samples[2].value > result.samples[1].value
    /\ result.samples[3].value > result.samples[2].value

\* C7: in MeasureDelete each 'Delete Time' is the instance's delete_end_time
\* minus its own delete_start_time and 'Cluster Delete Time' is the maximum
\* delete_end_time minus the time read before the fan-out, whatever the order
\* the tasks complete in.
C7_DeleteTimes ==
    (FanOutDone /\ operation = "Delete" /\ result.status = "returned") =>
        /\ Len(result.samples) = Len(vms) + 1
        /\ \A k \in 1..Len(vms) :
             /\ result.samples[k].metric = "Delete Time"
             /\ result.samples[k].value =
                    vms[k].delete_end_time - vms[k].delete_start_time
             /\ vms[k].delete_start_time = task[k].op_start
             /\ vms[k].delete_end_time = task[k].op_end
             /\ vms[k].delete_end_time - before_timestamp
                    <= result.samples[Len(vms) + 1].value
        /\ result.samples[Len(vms) + 1].metric = "Cluster Delete Time"
        /\ \E k \in 1..Len(vms) :
             result.samples[Len(vms) + 1].value =
                 vms[k].delete_end_time - before_timestamp

\* The cluster time is neither the longest delete nor the span up to the join,
\* and the second instance was deleted first.
C7_Witness ==
    /\ FanOutDone /\ operation = "Delete" /\ result.status = "returned"
    /\ Len(vms) = 2
    /\ vms[2].delete_end_time < vms[1].delete_end_time
    /\ result.samples[3].value > result.samples[1].value
    /\ result.samples[3].value > result.samples[2].value
    /\ result.samples[3].value < joined_at - before_timestamp

\* The duration the task of instance k measured.
Duration(k) == task[k].op_end - task[k].op_start

\* C8: of n >= 1 instances the fan-out call returns n samples '{Operation} Time'
\* followed by one 'Cluster {Operation} Time'; the k-th carries index k
\* (0-based), n, the OS type and the duration of the k-th input instance,
\* whatever the order the tasks completed in.
C8_SamplesInInputOrder ==
    (FanOutDone /\ result.status = "returned" /\ Len(vms) >= 1) =>
        /\ Len(result.samples) = Len(vms) + 1
        /\ \A k \in 1..Len(vms) :
             result.samples[k] =
                 [metric |-> operation \o " Time",
                  value |-> Duration(k),
                  unit |-> "seconds",
                  metadata |-> [machine_instance |-> k - 1,
                                num_vms |-> Len(vms),
                                os_type |-> vms[k].OS_TYPE]]
        /\ result.samples[Len(vms) + 1].metric = "Cluster " \o operation \o " Time"
        /\ result.samples[Len(vms) + 1].metadata.num_vms = Len(vms)

\* The second task completed first, with another duration, on another OS.
C8_Witness ==
    /\ FanOutDone /\ result.status = "returned" /\ Len(vms) = 2
    /\ operation = "Reboot"
    /\ task[2].op_end < task[1].op_end
    /\ Duration(1) # Duration(2)
    /\ vms[1].OS_TYPE # vms[2].OS_TYPE

====
